---------------------------- MODULE Spec2Model ----------------------------
(***************************************************************************)
(* purple-ghost: a chat logger.  One event loop (main.rs, `main`) waits on *)
(* the IRC event stream and on SIGHUP.  An IRC event is classified and     *)
(* appended to the log file of its channel through the FileHandleManager;  *)
(* SIGHUP reloads config.ron, diffs the channel list, sends PART/JOIN and  *)
(* replaces the FileHandleManager.                                         *)
(*                                                                         *)
(* Strings are sequences of characters; a character is a one-letter TLA+   *)
(* string.  Opaque text (nick names, message ids, tag keys) is a sequence  *)
(* as well.  The wall clock (chrono::Local::now) is not modelled: every    *)
(* timestamp is the token TS.  File appends, transport sends and the       *)
(* opening of log files are taken to succeed (their `expect` never fires); *)
(* the failures of reading, parsing and validating the configuration and   *)
(* of creating the log directory are modelled.  A line is in its log file  *)
(* from the moment write_all returns: the hand-over of the bytes to a      *)
(* blocking thread inside tokio::fs::File is not modelled.                 *)
(***************************************************************************)
EXTENDS Integers, Sequences, FiniteSets, TLC

(***************************************************************************)
(* Bounds of the model.                                                    *)
(***************************************************************************)
\* Inputs (IRC events and SIGHUP signals) delivered in one run.
MaxInputs == 2

(***************************************************************************)
(* Characters and strings.                                                 *)
(***************************************************************************)
Chars == {"#", ",", "-", "1", "A", "B", "_", "a", "b", "c"}

\* The ASCII code of a character of Chars.
Code(ch) ==
    CASE ch = "#" -> 35 [] ch = "," -> 44 [] ch = "-" -> 45 [] ch = "1" -> 49
      [] ch = "A" -> 65 [] ch = "B" -> 66 [] ch = "_" -> 95
      [] ch = "a" -> 97 [] ch = "b" -> 98 [] ch = "c" -> 99

Chr(n) == CHOOSE ch \in Chars : Code(ch) = n

\* char::is_ascii_alphanumeric
is_ascii_alphanumeric(ch) ==
    \/ Code(ch) \in 48..57
    \/ Code(ch) \in 65..90
    \/ Code(ch) \in 97..122

\* char::to_ascii_lowercase / str::to_ascii_lowercase
char_to_ascii_lowercase(ch) ==
    IF Code(ch) \in 65..90 THEN Chr(Code(ch) + 32) ELSE ch

to_ascii_lowercase(s) == [i \in 1..Len(s) |-> char_to_ascii_lowercase(s[i])]

ToSet(s) == {s[i] : i \in 1..Len(s)}

\* Vec::contains
contains(v, x) == \E i \in 1..Len(v) : v[i] = x

\* Iterator::filter(..).collect() on a Vec: the elements in keep, in order.
RECURSIVE Filter(_, _)
Filter(s, keep) ==
    IF s = <<>> THEN <<>>
    ELSE IF Head(s) \in keep THEN <<Head(s)>> \o Filter(Tail(s), keep)
    ELSE Filter(Tail(s), keep)

\* [String]::join(","): the elements with a comma between neighbours.
RECURSIVE join(_)
join(v) ==
    IF v = <<>> THEN <<>>
    ELSE IF Len(v) = 1 THEN v[1]
    ELSE v[1] \o <<",">> \o join(Tail(v))

\* The channel names a comma-joined list names (what the transport reads).
RECURSIVE Split(_, _)
Split(s, cur) ==
    IF s = <<>> THEN {cur}
    ELSE IF Head(s) = "," THEN {cur} \cup Split(Tail(s), <<>>)
    ELSE Split(Tail(s), Append(cur, Head(s)))

(***************************************************************************)
(* Option<T>.                                                              *)
(***************************************************************************)
None == [some |-> FALSE, val |-> <<>>]
Some(x) == [some |-> TRUE, val |-> x]
unwrap_or(o, d) == IF o.some THEN o.val ELSE d

(***************************************************************************)
(* The configuration: load_config's validation and normalisation.          *)
(***************************************************************************)
\* The closure of load_config's map: c.chars().all(alnum or '_').
ValidChannelName(c) ==
    \A i \in 1..Len(c) : is_ascii_alphanumeric(c[i]) \/ c[i] = "_"

\* format!("#{}", c.to_ascii_lowercase())
NormalizeChannel(c) == <<"#">> \o to_ascii_lowercase(c)

\* format!("logs/{}.txt", c)
LogPath(c) == <<"logs/">> \o c \o <<".txt">>

\* What config.ron holds when load_config reads it: err says which of the
\* steps before the channel mapping and after it fails.
ConfigFile(err, channels) == [err |-> err, channels |-> channels]

\* The outcome of load_config up to the call of open_log_files: the panic
\* it ends in, or "" and the normalised channel list.
LoadOutcome(cfg) ==
    IF cfg.err = "read" THEN [panic |-> "read config.ron", channels |-> <<>>]
    ELSE IF cfg.err = "parse" THEN [panic |-> "parse config", channels |-> <<>>]
    ELSE IF \E i \in 1..Len(cfg.channels) : ~ValidChannelName(cfg.channels[i])
    THEN [panic |-> "Invalid channel name", channels |-> <<>>]
    ELSE IF cfg.err = "mkdir"
    THEN [panic |-> "create log directory", channels |-> <<>>]
    ELSE [panic |-> "",
          channels |-> [i \in 1..Len(cfg.channels) |->
                           NormalizeChannel(cfg.channels[i])]]

(***************************************************************************)
(* Tags: tags_to_map builds a BTreeMap<String, String>, modelled as the    *)
(* sequence of its <<key, value>> entries in ascending key order.          *)
(***************************************************************************)
\* str's Ord: lexicographic by byte.
RECURSIVE StrLess(_, _)
StrLess(s, t) ==
    IF t = <<>> THEN FALSE
    ELSE IF s = <<>> THEN TRUE
    ELSE IF Code(Head(s)) # Code(Head(t)) THEN Code(Head(s)) < Code(Head(t))
    ELSE StrLess(Tail(s), Tail(t))

\* BTreeInsert keeping the entries in insertion order, like a Vec of pairs.
RECURSIVE InsertionOrderInsert(_, _, _)
InsertionOrderInsert(m, k, v) ==
    IF m = <<>> THEN <<<<k, v>>>>
    ELSE IF Head(m)[1] = k THEN <<<<k, v>>>> \o Tail(m)
    ELSE <<Head(m)>> \o InsertionOrderInsert(Tail(m), k, v)

\* BTreeMap::insert: replaces the value of an equal key, keeps key order.
RECURSIVE BTreeInsert(_, _, _)
BTreeInsert(m, k, v) ==
    IF m = <<>> THEN <<<<k, v>>>>
    ELSE IF Head(m)[1] = k THEN <<<<k, v>>>> \o Tail(m)
    ELSE IF StrLess(k, Head(m)[1]) THEN <<<<k, v>>>> \o m
    ELSE <<Head(m)>> \o BTreeInsert(Tail(m), k, v)

RECURSIVE CollectTags(_, _)
CollectTags(ts, m) ==
    IF ts = <<>> THEN m
    ELSE CollectTags(Tail(ts),
                     BTreeInsert(m, Head(ts).key, unwrap_or(Head(ts).value, <<>>)))

\* A protocol tag: Tag(String, Option<String>).
Tag(k, v) == [key |-> k, value |-> v]

tags_to_map(tags) == CollectTags(unwrap_or(tags, <<>>), <<>>)

\* ron::to_string of a String: the text between double quotes.
RonString(s) == <<"\"">> \o s \o <<"\"">>

RECURSIVE RonEntries(_)
RonEntries(m) ==
    IF m = <<>> THEN <<>>
    ELSE RonString(Head(m)[1]) \o <<":">> \o RonString(Head(m)[2])
         \o (IF Len(m) > 1 THEN <<",">> ELSE <<>>) \o RonEntries(Tail(m))

\* ron::to_string of a BTreeMap<String, String>: {"k":"v",...} in key order.
RonMap(m) == <<"{">> \o RonEntries(m) \o <<"}">>

(***************************************************************************)
(* Inputs of the model: the configurations config.ron may hold and the     *)
(* decoded events the IRC stream may deliver.                              *)
(***************************************************************************)
ConfigFiles ==
    { ConfigFile("read", <<>>),
      ConfigFile("parse", <<>>),
      ConfigFile("mkdir", << <<"a">> >>),
      ConfigFile("none", <<>>),
      ConfigFile("none", << <<"a">> >>),
      ConfigFile("none", << <<"A">>, <<"b">> >>),
      ConfigFile("none", << <<"b">>, <<"c">> >>),
      ConfigFile("none", << <<"a">>, <<"A">> >>),
      ConfigFile("none", << <<>> >>),
      ConfigFile("none", << <<"a", "-">> >>) }

ChanA == <<"#", "a">>
ChanB == <<"#", "b">>

\* Parameter lists of 0 to 3 parameters.
ParamLists ==
    { <<>>, <<ChanA>>, <<ChanB>>, <<ChanA, <<"bob">> >>,
      <<ChanA, <<"bob">>, <<"x">> >> }

\* A tag list out of key order, with a tag that has no value.
SomeTags == Some(<< Tag(<<"b">>, None), Tag(<<"a">>, Some(<<"1">>)) >>)

\* A decoded irc::proto::Message: its Command (the PRIVMSG variant, the Raw
\* variant or any other variant), its tags and its prefix (a nickname).
Message(variant, command, params, tags, prefix) ==
    [variant |-> variant, command |-> command, params |-> params,
     tags |-> tags, prefix |-> prefix]

IrcEvents ==
    { Message("PRIVMSG", "PRIVMSG", <<ChanA, <<"hello">> >>, SomeTags,
              Some(<<"alice">>)),
      Message("PRIVMSG", "PRIVMSG", <<ChanB, <<"hello">> >>, None, None),
      Message("Other", "PING", <<>>, None, None) }
    \cup
    { Message("Raw", cmd, ps, SomeTags, None) :
        cmd \in {"CLEARCHAT", "CLEARMSG", "ROOMSTATE", "USERNOTICE", "USERSTATE"},
        ps \in ParamLists }

(***************************************************************************)
(* The state.                                                              *)
(***************************************************************************)
VARIABLES
    pc,                    \* where main is: "main", "open_log_files",
                           \* "select", "irc_event", "reload_part",
                           \* "reload_swap", "reload_join", "reload_commit",
                           \* "aborted"
    panic,                 \* the message of the panic that aborted, or ""
    irc_channels,          \* main's irc_channels: Vec<String>
    file_handles,          \* main's file_handles: FileHandleManager
    new_irc_channels,      \* the sighup branch's locals
    new_file_handles,
    removed_irc_channels,
    added_irc_channels,
    opening,               \* the running load_config / open_log_files call
    open_files,            \* the File objects open in the process
    files,                 \* the log directory: path -> lines
    irc_config,            \* the client's Config: the channels it joins
    sent,                  \* the PART and JOIN directives sent so far
    stdout,
    stderr,
    irc_stream,            \* "open", or "ended" once next() yielded None
    message,               \* the irc event branch's message being handled
    sighup_pending,        \* a SIGHUP is delivered and not yet received
    n_inputs,              \* events and signals delivered so far
    n_managers             \* FileHandleManagers built so far

vars == <<pc, panic, irc_channels, file_handles, new_irc_channels,
          new_file_handles, removed_irc_channels, added_irc_channels,
          opening, open_files, files, irc_config, sent, stdout, stderr,
          irc_stream, message, sighup_pending, n_inputs, n_managers>>

\* The timestamp chrono::Local::now().to_rfc3339() renders.
TS == "<rfc3339>"

\* A FileHandleManager: HashMap<String, File>; id tells the managers apart.
FileHandleManager(id, map) == [id |-> id, map |-> map]
EmptyMap == [c \in {} |-> 0]
NoManager == FileHandleManager(0, EmptyMap)

\* A tokio::fs::File: the i-th file opened for manager mgr, on path.
File(mgr, i, path) == [mgr |-> mgr, idx |-> i, path |-> path]

\* A line of a log file; via is the File it was written through (bookkeeping,
\* not content).
Line(text, via) == [text |-> text, via |-> via]

NotOpening == [ret |-> "", raw |-> <<>>, channels |-> <<>>, fut |-> <<>>]

NoMessage == Message("", "", <<>>, None, None)

Init ==
    /\ pc = "main"
    /\ panic = ""
    /\ irc_channels = <<>>
    /\ file_handles = NoManager
    /\ new_irc_channels = <<>>
    /\ new_file_handles = NoManager
    /\ removed_irc_channels = <<>>
    /\ added_irc_channels = <<>>
    /\ opening = NotOpening
    /\ open_files = {}
    /\ files = [p \in {} |-> <<>>]
    /\ irc_config = [channels |-> <<>>]
    /\ sent = <<>>
    /\ stdout = <<>>
    /\ stderr = <<>>
    /\ irc_stream = "open"
    /\ message = NoMessage
    /\ sighup_pending = FALSE
    /\ n_inputs = 0
    /\ n_managers = 0

(***************************************************************************)
(* load_config and open_log_files.                                         *)
(***************************************************************************)
Abort(msg) ==
    /\ pc' = "aborted"
    /\ panic' = msg

\* load_config going on with no channel where it should panic.
load_config_ignores_failure(cfg, ret) ==
    LET out == LoadOutcome(cfg) IN
    /\ pc' = "open_log_files"
    /\ panic' = panic
    /\ n_managers' = n_managers + 1
    /\ opening' = [ret |-> ret, raw |-> cfg.channels,
                   channels |-> out.channels,
                   fut |-> [i \in 1..Len(out.channels) |-> "start"]]

\* load_config up to its call of open_log_files (join_all of one future per
\* element of irc_channels), called from `ret`.  opening.raw keeps the
\* channels of ghost_config.
load_config(cfg, ret) ==
    LET out == LoadOutcome(cfg) IN
    IF out.panic # ""
    THEN /\ Abort(out.panic)
         /\ opening' = [ret |-> ret, raw |-> cfg.channels, channels |-> <<>>,
                        fut |-> <<>>]
         /\ UNCHANGED n_managers
    ELSE /\ pc' = "open_log_files"
         /\ panic' = panic
         /\ n_managers' = n_managers + 1
         /\ opening' = [ret |-> ret, raw |-> cfg.channels,
                        channels |-> out.channels,
                        fut |-> [i \in 1..Len(out.channels) |-> "start"]]

\* The File the i-th future of the running open_log_files opens.
OpeningFile(i) == File(n_managers, i, LogPath(opening.channels[i]))

\* OpenOptions::new().append(true).create(true).open(..): the file exists
\* afterwards, with the content it had.
Created(fs, path) ==
    IF path \in DOMAIN fs THEN fs ELSE fs @@ (path :> <<>>)

AppendLine(fs, file, text) ==
    [fs EXCEPT ![file.path] = Append(@, Line(text, file))]

\* main.rs 211-223: one future of join_all opens its file and writes the
\* session marker.  The futures complete in any order.
OpenLogFile(i) ==
    /\ pc = "open_log_files"
    /\ i \in 1..Len(opening.channels)
    /\ opening.fut[i] = "start"
    /\ open_files' = open_files \cup {OpeningFile(i)}
    /\ files' = AppendLine(Created(files, LogPath(opening.channels[i])),
                           OpeningFile(i),
                           <<"// File opened at ", TS, "\n">>)
    /\ opening' = [opening EXCEPT !.fut[i] = "done"]
    /\ UNCHANGED <<pc, panic, irc_channels, file_handles, new_irc_channels,
                   new_file_handles, removed_irc_channels, added_irc_channels,
                   irc_config, sent, stdout, stderr, irc_stream, message,
                   sighup_pending, n_inputs, n_managers>>

\* AllOpened for a join that is ready when the first future is.
FirstOpened ==
    \/ opening.channels = <<>>
    \/ \E i \in 1..Len(opening.channels) : opening.fut[i] = "done"

\* join_all is ready when every future is.
AllOpened == \A i \in 1..Len(opening.channels) : opening.fut[i] = "done"

\* .into_iter().collect() into the HashMap: a later (c, file) pair replaces
\* an earlier one of the same channel.
CollectedIndex(c) ==
    CHOOSE i \in 1..Len(opening.channels) :
        /\ opening.channels[i] = c
        /\ \A j \in 1..Len(opening.channels) :
               opening.channels[j] = c => j <= i

CollectedMap ==
    [c \in ToSet(opening.channels) |-> OpeningFile(CollectedIndex(c))]

\* ReplacedFiles when the replaced Files are kept open.
ReplacedFilesKeptOpen == {}

\* The Files collect() replaced: dropped, so closed.
ReplacedFiles ==
    {OpeningFile(i) : i \in 1..Len(opening.channels)}
        \ {CollectedMap[c] : c \in DOMAIN CollectedMap}

\* main.rs 47-71: main starts, loads the configuration.
Startup ==
    /\ pc = "main"
    /\ \E cfg \in ConfigFiles : load_config(cfg, "main")
    /\ UNCHANGED <<irc_channels, file_handles, new_irc_channels,
                   new_file_handles, removed_irc_channels, added_irc_channels,
                   open_files, files, irc_config, sent, stdout, stderr,
                   irc_stream, message, sighup_pending, n_inputs>>

\* main.rs 47-71: load_config returns to main, the client is configured with
\* the channels and the stream is taken.
StartupReturn ==
    /\ pc = "open_log_files"
    /\ opening.ret = "main"
    /\ AllOpened
    /\ irc_channels' = opening.channels
    /\ file_handles' = FileHandleManager(n_managers, CollectedMap)
    /\ open_files' = open_files \ ReplacedFiles
    /\ irc_config' = [channels |-> opening.channels]
    /\ opening' = NotOpening
    /\ pc' = "select"
    /\ UNCHANGED <<panic, new_irc_channels, new_file_handles,
                   removed_irc_channels, added_irc_channels, files, sent,
                   stdout, stderr, irc_stream, message, sighup_pending, n_inputs, n_managers>>

(***************************************************************************)
(* The sighup branch of the select loop (main.rs 75-88).                   *)
(***************************************************************************)
\* The environment delivers SIGHUP once main listens for it (main.rs 49);
\* signals not yet received coalesce.
SignalArrives ==
    /\ pc \notin {"main", "aborted"}
    /\ opening.ret # "main"
    /\ n_inputs < MaxInputs
    /\ n_inputs' = n_inputs + 1
    /\ sighup_pending' = TRUE
    /\ UNCHANGED <<pc, panic, irc_channels, file_handles, new_irc_channels,
                   new_file_handles, removed_irc_channels, added_irc_channels,
                   opening, open_files, files, irc_config, sent, stdout,
                   stderr, irc_stream, message, n_managers>>

\* Sighup in a select that takes the sighup branch only once the stream has
\* ended.
SighupAfterStream ==
    /\ pc = "select"
    /\ sighup_pending
    /\ irc_stream = "ended"
    /\ sighup_pending' = FALSE
    /\ \E cfg \in ConfigFiles : load_config(cfg, "sighup")
    /\ UNCHANGED <<irc_channels, file_handles, new_irc_channels,
                   new_file_handles, removed_irc_channels, added_irc_channels,
                   open_files, files, irc_config, sent, stdout, stderr,
                   irc_stream, message, n_inputs>>

\* main.rs 75-76: sighup_stream.recv() is ready, the branch calls load_config.
Sighup ==
    /\ pc = "select"
    /\ sighup_pending
    /\ sighup_pending' = FALSE
    /\ \E cfg \in ConfigFiles : load_config(cfg, "sighup")
    /\ UNCHANGED <<irc_channels, file_handles, new_irc_channels,
                   new_file_handles, removed_irc_channels, added_irc_channels,
                   open_files, files, irc_config, sent, stdout, stderr,
                   irc_stream, message, n_inputs>>

\* main.rs 76: load_config returns (new_irc_channels, new_file_handles).
SighupReturn ==
    /\ pc = "open_log_files"
    /\ opening.ret = "sighup"
    /\ AllOpened
    /\ new_irc_channels' = opening.channels
    /\ new_file_handles' = FileHandleManager(n_managers, CollectedMap)
    /\ open_files' = open_files \ ReplacedFiles
    /\ opening' = NotOpening
    /\ pc' = "reload_part"
    /\ UNCHANGED <<panic, irc_channels, file_handles, removed_irc_channels,
                   added_irc_channels, files, irc_config, sent, stdout, stderr,
                   irc_stream, message, sighup_pending, n_inputs, n_managers>>

\* RemovedChannels with the filter's negation lost.
RemovedChannelsKept(old, new) ==
    Filter(old, {c \in ToSet(old) : contains(new, c)})

\* main.rs 77: the channels of irc_channels that new_irc_channels lacks.
RemovedChannels(old, new) ==
    Filter(old, {c \in ToSet(old) : ~contains(new, c)})

\* AddedChannels filtering the new list against itself.
AddedChannelsAgainstNew(old, new) ==
    Filter(new, {c \in ToSet(new) : ~contains(new, c)})

\* main.rs 78: the channels of new_irc_channels that irc_channels lacks.
AddedChannels(old, new) ==
    Filter(new, {c \in ToSet(new) : ~contains(old, c)})

Directive(command, arg) == [command |-> command, arg |-> arg]

\* ReloadPart sending the JOIN as well, before the manager is replaced.
ReloadPartAndJoin ==
    /\ pc = "reload_part"
    /\ removed_irc_channels' = RemovedChannels(irc_channels, new_irc_channels)
    /\ added_irc_channels' = AddedChannels(irc_channels, new_irc_channels)
    /\ sent' = (IF removed_irc_channels' # <<>>
                THEN Append(sent, Directive("PART", join(removed_irc_channels')))
                ELSE sent)
               \o (IF added_irc_channels' # <<>>
                   THEN <<Directive("JOIN", join(added_irc_channels'))>>
                   ELSE <<>>)
    /\ pc' = "reload_swap"
    /\ UNCHANGED <<panic, irc_channels, file_handles, new_irc_channels,
                   new_file_handles, opening, open_files, files, irc_config,
                   stdout, stderr, irc_stream, message, sighup_pending,
                   n_inputs, n_managers>>

\* main.rs 77-81: the two differences, and PART for the removed channels.
ReloadPart ==
    /\ pc = "reload_part"
    /\ removed_irc_channels' = RemovedChannels(irc_channels, new_irc_channels)
    /\ added_irc_channels' = AddedChannels(irc_channels, new_irc_channels)
    /\ sent' = IF removed_irc_channels' # <<>>
               THEN Append(sent, Directive("PART", join(removed_irc_channels')))
               ELSE sent
    /\ pc' = "reload_swap"
    /\ UNCHANGED <<panic, irc_channels, file_handles, new_irc_channels,
                   new_file_handles, opening, open_files, files, irc_config,
                   stdout, stderr, irc_stream, message, sighup_pending, n_inputs, n_managers>>

\* The Files a manager owns.
FilesOf(manager) == {manager.map[c] : c \in DOMAIN manager.map}

\* ReloadSwap without the assignment: the new manager is dropped instead.
ReloadSwapKeepsOld ==
    /\ pc = "reload_swap"
    /\ file_handles' = file_handles
    /\ open_files' = open_files \ FilesOf(new_file_handles)
    /\ new_file_handles' = NoManager
    /\ pc' = "reload_join"
    /\ UNCHANGED <<panic, irc_channels, new_irc_channels, removed_irc_channels,
                   added_irc_channels, opening, files, irc_config, sent,
                   stdout, stderr, irc_stream, message, sighup_pending,
                   n_inputs, n_managers>>

\* ReloadSwap with the old manager kept alive (its files stay open).
ReloadSwapLeaksOld ==
    /\ pc = "reload_swap"
    /\ file_handles' = new_file_handles
    /\ open_files' = open_files
    /\ new_file_handles' = NoManager
    /\ pc' = "reload_join"
    /\ UNCHANGED <<panic, irc_channels, new_irc_channels, removed_irc_channels,
                   added_irc_channels, opening, files, irc_config, sent,
                   stdout, stderr, irc_stream, message, sighup_pending,
                   n_inputs, n_managers>>

\* main.rs 82: file_handles = new_file_handles; the old manager is dropped,
\* which closes its files.
ReloadSwap ==
    /\ pc = "reload_swap"
    /\ file_handles' = new_file_handles
    /\ open_files' = open_files \ FilesOf(file_handles)
    /\ new_file_handles' = NoManager
    /\ pc' = "reload_join"
    /\ UNCHANGED <<panic, irc_channels, new_irc_channels, removed_irc_channels,
                   added_irc_channels, opening, files, irc_config, sent,
                   stdout, stderr, irc_stream, message, sighup_pending, n_inputs, n_managers>>

\* main.rs 83-85: JOIN for the added channels.
ReloadJoin ==
    /\ pc = "reload_join"
    /\ sent' = IF added_irc_channels # <<>>
               THEN Append(sent, Directive("JOIN", join(added_irc_channels)))
               ELSE sent
    /\ pc' = "reload_commit"
    /\ UNCHANGED <<panic, irc_channels, file_handles, new_irc_channels,
                   new_file_handles, removed_irc_channels, added_irc_channels,
                   opening, open_files, files, irc_config, stdout, stderr,
                   irc_stream, message, sighup_pending, n_inputs, n_managers>>

\* main.rs 86-87: irc_channels = new_irc_channels; the branch's locals end.
ReloadCommit ==
    /\ pc = "reload_commit"
    /\ irc_channels' = new_irc_channels
    /\ stdout' = Append(stdout, <<"Reloaded config.">>)
    /\ new_irc_channels' = <<>>
    /\ removed_irc_channels' = <<>>
    /\ added_irc_channels' = <<>>
    /\ pc' = "select"
    /\ UNCHANGED <<panic, file_handles, new_file_handles, opening, open_files,
                   files, irc_config, sent, stderr, irc_stream, message, sighup_pending,
                   n_inputs, n_managers>>

(***************************************************************************)
(* The irc event branch of the select loop (main.rs 89-174).               *)
(***************************************************************************)
\* What handling one message comes to: a call of write_to_log, a panic, or
\* print_message.
WriteToLog(channel_name, line) ==
    [kind |-> "write", channel |-> channel_name, text |-> line]
Panic(msg) == [kind |-> "panic", channel |-> <<>>, text |-> <<msg>>]
PrintOnly(text) == [kind |-> "print", channel |-> <<>>, text |-> text]

\* The panic of Option::unwrap on None.
UnwrapNone == "called Option::unwrap() on a None value"

\* ron::to_string(&PrivMsg{sender, message, tags})
RonPrivMsg(sender, msg, tags) ==
    <<"(sender:">> \o RonString(sender) \o <<",message:">>
        \o RonString(msg) \o <<",tags:">> \o RonMap(tags) \o <<")">>

\* main.rs 92-105 / handlers.rs handle_priv_msg
handle_priv_msg(sender, channel_name, msg, tags) ==
    WriteToLog(channel_name,
               <<"PRIVMSG">> \o RonPrivMsg(sender, msg, tags_to_map(tags)))

\* handle_clear_chat taking every list of two or more parameters as
\* (channel, user, ...).
handle_clear_chat_lenient(value, tags) ==
    IF Len(value) = 1
    THEN WriteToLog(value[1],
                    <<"CLEARCHAT", "(tags:">> \o RonMap(tags_to_map(tags))
                        \o <<")">>)
    ELSE IF Len(value) >= 2
    THEN WriteToLog(value[1],
                    <<"CLEARCHAT", "(user:\"">> \o value[2] \o <<"\",tags:">>
                        \o RonMap(tags_to_map(tags)) \o <<")">>)
    ELSE Panic("unexpected number of params for CLEARCHAT")

\* main.rs 108-140 / handlers.rs handle_clear_chat
handle_clear_chat(value, tags) ==
    IF Len(value) = 1
    THEN WriteToLog(value[1],
                    <<"CLEARCHAT", "(tags:">> \o RonMap(tags_to_map(tags))
                        \o <<")">>)
    ELSE IF Len(value) = 2
    THEN WriteToLog(value[1],
                    <<"CLEARCHAT", "(user:\"">> \o value[2] \o <<"\",tags:">>
                        \o RonMap(tags_to_map(tags)) \o <<")">>)
    ELSE Panic("unexpected number of params for CLEARCHAT")

\* main.rs 141-153 / handlers.rs handle_clear_msg: value.get(0).unwrap() and
\* value.get(1).unwrap() are evaluated before write_to_log is called.
handle_clear_msg(value, tags) ==
    IF Len(value) < 2
    THEN Panic(UnwrapNone)
    ELSE WriteToLog(value[1],
                    <<"CLEARMSG", "(message:\"">> \o value[2] \o <<"\",tags:">>
                        \o RonMap(tags_to_map(tags)) \o <<")">>)

\* handle_notice appending to the file of the last parameter.
handle_notice_last_param(command, value, tags) ==
    IF Len(value) < 1
    THEN Panic(UnwrapNone)
    ELSE WriteToLog(value[Len(value)],
                    <<command, "(tags:">> \o RonMap(tags_to_map(tags))
                        \o <<")">>)

\* main.rs 154-165 / handlers.rs handle_notice
handle_notice(command, value, tags) ==
    IF Len(value) < 1
    THEN Panic(UnwrapNone)
    ELSE WriteToLog(value[1],
                    <<command, "(tags:">> \o RonMap(tags_to_map(tags))
                        \o <<")">>)

\* print_message: the command, the prefix if there is one, the tag map.
print_message(m) ==
    PrintOnly(<<m.command, " ">>
                  \o (IF m.prefix.some
                      THEN <<"from ">> \o m.prefix.val \o <<" ">>
                      ELSE <<>>)
                  \o RonMap(tags_to_map(m.tags)))

\* Dispatch with every other Raw command handled as a notice.
DispatchRawAsNotice(m) ==
    IF m.variant = "PRIVMSG"
    THEN handle_priv_msg(unwrap_or(m.prefix, <<"???">>),
                         m.params[1], m.params[2], m.tags)
    ELSE IF m.variant = "Raw"
    THEN IF m.command = "CLEARCHAT"
         THEN handle_clear_chat(m.params, m.tags)
         ELSE IF m.command = "CLEARMSG"
         THEN handle_clear_msg(m.params, m.tags)
         ELSE handle_notice(m.command, m.params, m.tags)
    ELSE print_message(m)

\* main.rs 91-173: the match on message.command.
Dispatch(m) ==
    IF m.variant = "PRIVMSG"
    THEN handle_priv_msg(unwrap_or(m.prefix, <<"???">>),
                         m.params[1], m.params[2], m.tags)
    ELSE IF m.variant = "Raw"
    THEN IF m.command = "CLEARCHAT"
         THEN handle_clear_chat(m.params, m.tags)
         ELSE IF m.command = "CLEARMSG"
         THEN handle_clear_msg(m.params, m.tags)
         ELSE IF m.command \in {"ROOMSTATE", "USERNOTICE"}
         THEN handle_notice(m.command, m.params, m.tags)
         ELSE print_message(m)
    ELSE print_message(m)

\* write_to_log creating the missing file instead of reporting it.
write_to_log_creates(channel_name, line) ==
    LET file == IF channel_name \in DOMAIN file_handles.map
                THEN file_handles.map[channel_name]
                ELSE File(file_handles.id, 0, LogPath(channel_name))
    IN /\ files' = AppendLine(Created(files, file.path), file,
                              line \o <<" // ", TS, "\n">>)
       /\ stderr' = stderr

\* FileHandleManager::write_to_log on main's file_handles.
write_to_log(channel_name, line) ==
    IF channel_name \in DOMAIN file_handles.map
    THEN /\ files' = AppendLine(files, file_handles.map[channel_name],
                                line \o <<" // ", TS, "\n">>)
         /\ stderr' = stderr
    ELSE /\ stderr' = Append(stderr,
                             <<"No file opened for ">> \o channel_name
                                 \o <<", would have logged:\n">> \o line)
         /\ files' = files

\* IrcReceive taking an event while the sighup branch is between its load
\* and its swap.
IrcReceivePreempts(m) ==
    /\ pc \in {"select", "reload_swap"}
    /\ irc_stream = "open"
    /\ n_inputs < MaxInputs
    /\ n_inputs' = n_inputs + 1
    /\ message' = m
    /\ pc' = "irc_event"
    /\ UNCHANGED <<panic, irc_channels, file_handles, new_irc_channels,
                   new_file_handles, removed_irc_channels, added_irc_channels,
                   opening, open_files, files, irc_config, sent, stdout,
                   stderr, irc_stream, sighup_pending, n_managers>>

\* main.rs 89-90: the stream yields Some(Ok(message)).
IrcReceive(m) ==
    /\ pc = "select"
    /\ irc_stream = "open"
    /\ n_inputs < MaxInputs
    /\ n_inputs' = n_inputs + 1
    /\ message' = m
    /\ pc' = "irc_event"
    /\ UNCHANGED <<panic, irc_channels, file_handles, new_irc_channels,
                   new_file_handles, removed_irc_channels, added_irc_channels,
                   opening, open_files, files, irc_config, sent, stdout,
                   stderr, irc_stream, sighup_pending, n_managers>>

\* main.rs 91-173: the message is classified and handled.
IrcHandle ==
    /\ pc = "irc_event"
    /\ LET todo == Dispatch(message) IN
       IF todo.kind = "write"
       THEN /\ write_to_log(todo.channel, todo.text)
            /\ pc' = "select"
            /\ UNCHANGED <<panic, stdout>>
       ELSE IF todo.kind = "panic"
       THEN /\ Abort(todo.text[1])
            /\ UNCHANGED <<files, stdout, stderr>>
       ELSE /\ stdout' = Append(stdout, todo.text)
            /\ pc' = "select"
            /\ UNCHANGED <<panic, files, stderr>>
    /\ message' = NoMessage
    /\ UNCHANGED <<irc_channels, file_handles, new_irc_channels,
                   new_file_handles, removed_irc_channels, added_irc_channels,
                   opening, open_files, irc_config, sent, irc_stream,
                   sighup_pending, n_inputs, n_managers>>

\* main.rs 90: the stream yields Some(Err(_)); expect("get IRC message")
\* panics.
IrcError ==
    /\ pc = "select"
    /\ irc_stream = "open"
    /\ Abort("get IRC message")
    /\ UNCHANGED <<irc_channels, file_handles, new_irc_channels,
                   new_file_handles, removed_irc_channels, added_irc_channels,
                   opening, open_files, files, irc_config, sent, stdout,
                   stderr, irc_stream, message, sighup_pending, n_inputs,
                   n_managers>>

\* main.rs 89: the stream yields None.  The pattern Some(irc_event) does not
\* match, so select! disables this branch and goes on waiting for the
\* sighup branch, whose pattern `_` matches whatever recv() yields: the
\* `else => break` of line 175 runs only when every branch is disabled,
\* which never is the case.
StreamEnd ==
    /\ pc = "select"
    /\ irc_stream = "open"
    /\ irc_stream' = "ended"
    /\ UNCHANGED <<pc, panic, irc_channels, file_handles, new_irc_channels,
                   new_file_handles, removed_irc_channels, added_irc_channels,
                   opening, open_files, files, irc_config, sent, stdout,
                   stderr, message, sighup_pending, n_inputs, n_managers>>

Next ==
    \/ Startup
    \/ \E i \in 1..Len(opening.channels) : OpenLogFile(i)
    \/ StartupReturn
    \/ SignalArrives
    \/ Sighup
    \/ SighupReturn
    \/ ReloadPart
    \/ ReloadSwap
    \/ ReloadJoin
    \/ ReloadCommit
    \/ \E m \in IrcEvents : IrcReceive(m)
    \/ IrcHandle
    \/ IrcError
    \/ StreamEnd

Spec == Init /\ [][Next]_vars

(***************************************************************************)
(* Scheduling.  main is one task that the runtime keeps polling: a step    *)
(* of the program that can be taken is taken.  select! without `biased`    *)
(* starts its poll at a branch chosen at random, so a branch that is ready *)
(* again and again is taken in the end: strong fairness of the sighup      *)
(* branch.  What the environment does (events, stream end, signals) is     *)
(* under no fairness.                                                      *)
(***************************************************************************)
ProgramStep ==
    \/ Startup
    \/ \E i \in 1..Len(opening.channels) : OpenLogFile(i)
    \/ StartupReturn
    \/ SighupReturn
    \/ ReloadPart
    \/ ReloadSwap
    \/ ReloadJoin
    \/ ReloadCommit
    \/ IrcHandle

\* The runs checked for progress draw what the environment supplies from a
\* few cases: a configuration that cannot be read, an empty one, one channel,
\* two other channels; an event that is written, one that is printed and
\* one whose handler panics.
FairInputs ==
    /\ opening'.raw \in {<<>>, << <<"a">> >>, << <<"b">>, <<"c">> >>}
    /\ message' \in
           { NoMessage,
             Message("PRIVMSG", "PRIVMSG", <<ChanA, <<"hello">> >>, SomeTags,
                     Some(<<"alice">>)),
             Message("Other", "PING", <<>>, None, None),
             Message("Raw", "CLEARCHAT", <<>>, SomeTags, None) }

FairNext == Next /\ FairInputs

FairSpec ==
    /\ Init
    /\ [][FairNext]_vars
    /\ WF_vars(ProgramStep /\ FairInputs)
    /\ SF_vars(Sighup /\ FairInputs)

(***************************************************************************)
(* tags_to_map on its own: main has started with the one channel #a and    *)
(* the stream has yielded a ROOMSTATE for #a that carries any list of up   *)
(* to MaxTags tags; the event is handled.                                  *)
(***************************************************************************)
\* Tags a message carries in one run of TagSpec.
MaxTags == 3

TagKeys == {<<"a">>, <<"b">>, <<"c">>}

TagValues == {None, Some(<<"1">>)}

\* message.tags: None, or Some of a list of tags, keys repeated or not.
TagLists ==
    {None} \cup
    {Some(ts) : ts \in UNION {[1..n -> {Tag(k, v) : k \in TagKeys,
                                                    v \in TagValues}] :
                                 n \in 0..MaxTags}}

TagInit ==
    /\ pc = "irc_event"
    /\ panic = ""
    /\ irc_channels = <<ChanA>>
    /\ file_handles = FileHandleManager(1, ChanA :> File(1, 1, LogPath(ChanA)))
    /\ new_irc_channels = <<>>
    /\ new_file_handles = NoManager
    /\ removed_irc_channels = <<>>
    /\ added_irc_channels = <<>>
    /\ opening = NotOpening
    /\ open_files = {File(1, 1, LogPath(ChanA))}
    /\ files = LogPath(ChanA) :>
                   <<Line(<<"// File opened at ", TS, "\n">>,
                          File(1, 1, LogPath(ChanA)))>>
    /\ irc_config = [channels |-> <<ChanA>>]
    /\ sent = <<>>
    /\ stdout = <<>>
    /\ stderr = <<>>
    /\ irc_stream = "open"
    /\ \E tags \in TagLists :
           message = Message("Raw", "ROOMSTATE", <<ChanA>>, tags, None)
    /\ sighup_pending = FALSE
    /\ n_inputs = 1
    /\ n_managers = 1

TagNext == IrcHandle

TagSpec == TagInit /\ [][TagNext]_vars

(***************************************************************************)
(* Properties.                                                             *)
(***************************************************************************)
\* The last element of a non-empty sequence.
Last(q) == q[Len(q)]

\* q2 is q1 with one element appended.
OneAppended(q1, q2) ==
    /\ Len(q2) = Len(q1) + 1
    /\ SubSeq(q2, 1, Len(q1)) = q1

\* The lines of the log files that are records (not session markers).
IsRecord(line) == line.text[1] # "// File opened at "

\* The open Files on the log file of channel c.
OpenOn(c) == {f \in open_files : f.path = LogPath(c)}

\* C1: one reload sends a PART iff some tracked channel is not in the newly
\* loaded list, and that PART lists exactly those channels; it sends a JOIN
\* iff some newly loaded channel is not tracked, and that JOIN lists exactly
\* those; a channel of both lists is in neither directive; no other step of
\* the loop sends a directive; when the reload ends the tracked channels are
\* the newly loaded ones.
C1_ReloadDiffsChannelSets ==
    [][LET old == ToSet(irc_channels)
           new == ToSet(new_irc_channels)
       IN /\ (pc = "reload_part" /\ pc' = "reload_swap") =>
                 /\ irc_channels' = irc_channels
                 /\ new_irc_channels' = new_irc_channels
                 /\ IF old \ new = {}
                    THEN sent' = sent
                    ELSE /\ OneAppended(sent, sent')
                         /\ Last(sent').command = "PART"
                         /\ Split(Last(sent').arg, <<>>) = old \ new
                         /\ Split(Last(sent').arg, <<>>) \cap (old \cap new) = {}
          /\ (pc = "reload_swap" /\ pc' = "reload_join") =>
                 /\ irc_channels' = irc_channels
                 /\ new_irc_channels' = new_irc_channels
          /\ (pc = "reload_join" /\ pc' = "reload_commit") =>
                 /\ irc_channels' = irc_channels
                 /\ new_irc_channels' = new_irc_channels
                 /\ IF new \ old = {}
                    THEN sent' = sent
                    ELSE /\ OneAppended(sent, sent')
                         /\ Last(sent').command = "JOIN"
                         /\ Split(Last(sent').arg, <<>>) = new \ old
                         /\ Split(Last(sent').arg, <<>>) \cap (old \cap new) = {}
          /\ (pc = "reload_commit" /\ pc' = "select") =>
                 ToSet(irc_channels') = new
          /\ ~(pc = "reload_part" /\ pc' = "reload_swap")
               /\ ~(pc = "reload_join" /\ pc' = "reload_commit") =>
                 sent' = sent
      ]_vars

\* C1 witness: the first reload has ended after a PART and a JOIN, and it
\* kept a channel of the startup configuration.
C1_Witness ==
    /\ pc = "select"
    /\ n_managers = 2
    /\ Len(sent) = 2
    /\ sent[1].command = "PART"
    /\ sent[2].command = "JOIN"
    /\ ToSet(irc_channels) \cap ToSet(irc_config.channels) # {}

\* C2: once a reload has ended, whatever the handling of an event appends to
\* a log file is written through a File of the manager that reload built
\* (managers are numbered as they are built, and none is being built while
\* an event is handled, so that manager is number n_managers), a File that
\* is open.
C2_WritesGoThroughNewestManager ==
    [][(pc = "irc_event" /\ n_managers >= 2) =>
           \A p \in DOMAIN files :
               files'[p] # files[p] =>
                   /\ OneAppended(files[p], files'[p])
                   /\ Last(files'[p]).via.mgr = n_managers
                   /\ Last(files'[p]).via \in open_files
      ]_vars

\* C2 witness: a record written through a manager that a reload built.
C2_Witness ==
    /\ pc = "select"
    /\ \E p \in DOMAIN files : \E i \in 1..Len(files[p]) :
           IsRecord(files[p][i]) /\ files[p][i].via.mgr >= 2

\* C3: handling an event whose write targets a channel with no File in the
\* current manager emits one diagnostic, appends to no log file, leaves the
\* manager, the open Files and the tracked channels as they are, and returns
\* to the select loop.
C3_MissingHandleDropsEvent ==
    [][(/\ pc = "irc_event"
        /\ pc' # pc
        /\ Dispatch(message).kind = "write"
        /\ Dispatch(message).channel \notin DOMAIN file_handles.map) =>
           /\ OneAppended(stderr, stderr')
           /\ files' = files
           /\ file_handles' = file_handles
           /\ open_files' = open_files
           /\ irc_channels' = irc_channels
           /\ pc' = "select"
           /\ panic' = ""
      ]_vars

\* C3 witness: the loop waits again after a diagnostic for a channel that the
\* first reload removed.
C3_Witness ==
    /\ pc = "select"
    /\ Len(stderr) = 1
    /\ Len(sent) >= 1
    /\ sent[1].command = "PART"
    /\ <<stderr[1][2], stderr[1][3]>> \in Split(sent[1].arg, <<>>)

\* C4: once the event stream has ended no reload is processed: main is not
\* in load_config or in a later step of the sighup branch.
C4_NoReloadAfterStreamEnd ==
    irc_stream = "ended" =>
        pc \notin {"open_log_files", "reload_part", "reload_swap",
                   "reload_join", "reload_commit"}

\* C5: a CLEARCHAT with 0 or with 3 or more parameters is rejected (the
\* handler panics) and appends to no log file; with 1 parameter the record
\* CLEARCHAT(tags:{...}) and with 2 parameters the record
\* CLEARCHAT(user:"<user>",tags:{...}) goes to the channel of the first
\* parameter: to its log file, or into the diagnostic when it has no File.
C5_ClearChatByParameterCount ==
    [][(/\ pc = "irc_event"
        /\ pc' # pc
        /\ message.variant = "Raw"
        /\ message.command = "CLEARCHAT") =>
           LET n == Len(message.params)
               tags == RonMap(tags_to_map(message.tags))
           IN IF n \notin {1, 2}
              THEN /\ files' = files
                   /\ pc' = "aborted"
                   /\ panic' = "unexpected number of params for CLEARCHAT"
              ELSE LET c == message.params[1]
                       text == IF n = 1
                               THEN <<"CLEARCHAT", "(tags:">> \o tags \o <<")">>
                               ELSE <<"CLEARCHAT", "(user:\"">>
                                        \o message.params[2]
                                        \o <<"\",tags:">> \o tags \o <<")">>
                   IN IF c \in DOMAIN file_handles.map
                      THEN /\ OneAppended(files[LogPath(c)], files'[LogPath(c)])
                           /\ Last(files'[LogPath(c)]).text
                                  = text \o <<" // ", TS, "\n">>
                      ELSE /\ files' = files
                           /\ OneAppended(stderr, stderr')
                           /\ Last(stderr') = <<"No file opened for ">> \o c
                                  \o <<", would have logged:\n">> \o text
      ]_vars

\* C5 witness: a CLEARCHAT(user:...) record is in a log file and a later
\* CLEARCHAT was rejected.
C5_Witness ==
    /\ pc = "aborted"
    /\ panic = "unexpected number of params for CLEARCHAT"
    /\ \E p \in DOMAIN files : \E i \in 1..Len(files[p]) :
           /\ files[p][i].text[1] = "CLEARCHAT"
           /\ files[p][i].text[2] = "(user:\""

\* A raw channel name matches [A-Za-z0-9_]+.
MatchesChannelPattern(c) ==
    /\ Len(c) >= 1
    /\ \A i \in 1..Len(c) : is_ascii_alphanumeric(c[i]) \/ c[i] = "_"

\* C6: of a configuration that was read and parsed, load_config rejects a
\* raw channel name (panics with Invalid channel name) iff some name does not
\* match [A-Za-z0-9_]+, and the names it accepts become # and their
\* lowercase form.
C6_AcceptsExactlyPatternNames ==
    (opening.ret # "" /\ panic \notin {"read config.ron", "parse config"}) =>
        /\ (panic = "Invalid channel name")
               <=> (\E i \in 1..Len(opening.raw) :
                        ~MatchesChannelPattern(opening.raw[i]))
        /\ panic = "" =>
               /\ Len(opening.channels) = Len(opening.raw)
               /\ \A i \in 1..Len(opening.raw) :
                      opening.channels[i]
                          = <<"#">> \o to_ascii_lowercase(opening.raw[i])

\* An event of the routing table: its command and parameter count.
Classified(m) ==
    \/ m.variant = "PRIVMSG"
    \/ /\ m.variant = "Raw"
       /\ \/ m.command = "CLEARCHAT" /\ Len(m.params) \in {1, 2}
          \/ m.command = "CLEARMSG" /\ Len(m.params) = 2
          \/ m.command \in {"ROOMSTATE", "USERNOTICE"} /\ Len(m.params) >= 1

\* C7: handling a classified event for a channel that has a File in the
\* manager appends exactly one line to that channel's log file and leaves
\* every other log file, the tracked channels, the manager and the open
\* Files as they are.
C7_ClassifiedEventAppendsOneLine ==
    [][(/\ pc = "irc_event"
        /\ pc' # pc
        /\ Classified(message)
        /\ message.params[1] \in DOMAIN file_handles.map) =>
           LET p == LogPath(message.params[1])
           IN /\ DOMAIN files' = DOMAIN files
              /\ OneAppended(files[p], files'[p])
              /\ IsRecord(Last(files'[p]))
              /\ \A q \in DOMAIN files \ {p} : files'[q] = files[q]
              /\ irc_channels' = irc_channels
              /\ file_handles' = file_handles
              /\ open_files' = open_files
      ]_vars

\* C7 witness: two log files exist, one of them holds a record.
C7_Witness ==
    /\ pc = "select"
    /\ \E p, q \in DOMAIN files :
           /\ p # q
           /\ files[q] # <<>>
           /\ \E i \in 1..Len(files[p]) : IsRecord(files[p][i])

\* C8: handling an event whose command is none of PRIVMSG, CLEARCHAT,
\* CLEARMSG, ROOMSTATE, USERNOTICE prints one line and nothing else: no log
\* file, File, manager or tracked channel changes, no directive is sent, no
\* diagnostic is written, and main returns to the select loop.
C8_OtherCommandsPrintOnly ==
    [][(/\ pc = "irc_event"
        /\ pc' # pc
        /\ message.command \notin {"PRIVMSG", "CLEARCHAT", "CLEARMSG",
                                   "ROOMSTATE", "USERNOTICE"}) =>
           /\ OneAppended(stdout, stdout')
           /\ files' = files
           /\ file_handles' = file_handles
           /\ open_files' = open_files
           /\ irc_channels' = irc_channels
           /\ sent' = sent
           /\ stderr' = stderr
           /\ pc' = "select"
           /\ panic' = ""
      ]_vars

\* C8 witness: the loop waits again after printing a USERSTATE or a PING.
C8_Witness ==
    /\ pc = "select"
    /\ \E i \in 1..Len(stdout) : stdout[i][1] \in {"USERSTATE", "PING"}

\* C9 as claimed: in every state each tracked channel has at most one open
\* File in the process.
C9_AtMostOneOpenFileAlways ==
    \A c \in ToSet(irc_channels) : Cardinality(OpenOn(c)) <= 1

\* C9 as amended: each tracked channel has at most one open File in the
\* process in every state except those of a reload between the opening of
\* the new Files and the replacement of the old manager.
C9_OneOpenFileOutsideReload ==
    pc \notin {"open_log_files", "reload_part", "reload_swap"} =>
        \A c \in ToSet(irc_channels) : Cardinality(OpenOn(c)) <= 1

\* C9 witness: a reload has ended that kept a channel listed twice at
\* startup.
C9_Witness ==
    /\ pc = "select"
    /\ n_managers >= 2
    /\ Len(irc_config.channels) = 2
    /\ irc_config.channels[1] = irc_config.channels[2]
    /\ irc_config.channels[1] \in ToSet(irc_channels)

\* C10: the Files of the live manager are open in every state, so the old
\* manager's are not released before the swap; the new manager is fully
\* opened before the swap; from the swap on, and whenever main is in the
\* select loop, every open File is one of the live manager; no File is owned
\* by both managers.
C10_OldFilesReleasedAtSwap ==
    /\ FilesOf(file_handles) \subseteq open_files
    /\ pc \in {"reload_part", "reload_swap"} =>
           /\ FilesOf(new_file_handles) \subseteq open_files
           /\ DOMAIN new_file_handles.map = ToSet(new_irc_channels)
           /\ new_file_handles.id # file_handles.id
    /\ pc \in {"reload_join", "reload_commit", "select", "irc_event"} =>
           open_files = FilesOf(file_handles)
    /\ FilesOf(file_handles) \cap FilesOf(new_file_handles) = {}

\* C10 witness: the swap has just replaced a manager that owned Files by one
\* that owns Files.
C10_Witness ==
    /\ pc = "reload_join"
    /\ irc_channels # <<>>
    /\ DOMAIN file_handles.map # {}


\* Where main is while the sighup branch runs.
ReloadPcs ==
    {"open_log_files", "reload_part", "reload_swap", "reload_join",
     "reload_commit"}

\* C11: the loop handles one ready source to its end before it takes the
\* next.  An event is taken only while main waits in select, with no reload
\* under way; while a reload is under way (from its load to its last
\* statement) no event is held or classified, no record is written and only
\* the swap touches the manager; a reload starts only while main waits in
\* select with no event held; while an event is handled no configuration is
\* loaded, no manager is built or replaced and no directive is sent.
C11_OneSourceAtATime ==
    [][/\ (message' # NoMessage /\ message = NoMessage) =>
              /\ pc = "select"
              /\ opening = NotOpening
              /\ new_file_handles = NoManager
       /\ (pc \in ReloadPcs /\ opening.ret # "main") =>
              /\ message = NoMessage
              /\ message' = NoMessage
              /\ pc' # "irc_event"
              /\ \A p \in DOMAIN files :
                     files'[p] # files[p] => ~IsRecord(Last(files'[p]))
              /\ file_handles' # file_handles => pc = "reload_swap"
       /\ (opening'.ret = "sighup" /\ opening.ret = "") =>
              /\ pc = "select"
              /\ message = NoMessage
       /\ pc = "irc_event" =>
              /\ opening = NotOpening /\ opening' = NotOpening
              /\ new_file_handles = NoManager
              /\ file_handles' = file_handles
              /\ open_files' = open_files
              /\ n_managers' = n_managers
              /\ sent' = sent
              /\ pc' \in {"irc_event", "select", "aborted"}
      ]_vars

\* C11 witness: an event for a channel with a File is being handled while a
\* SIGHUP is pending.
C11_Witness ==
    /\ pc = "irc_event"
    /\ sighup_pending
    /\ message.variant = "PRIVMSG"
    /\ message.params[1] \in DOMAIN file_handles.map


\* The panics load_config can end in.
ConfigErrors ==
    {"read config.ron", "parse config", "Invalid channel name",
     "create log directory"}

\* C12: the step that starts a reload either goes on to open the log files
\* or aborts the process with a configuration error; it aborts when a
\* channel name of the configuration is invalid; when it aborts, no
\* directive has been sent, and the manager, the tracked channels, the open
\* Files and the log files are as they were; an aborted process takes no
\* further step.
C12_FailedReloadChangesNothing ==
    [][/\ (opening'.ret = "sighup" /\ opening.ret = "") =>
              /\ pc' \in {"aborted", "open_log_files"}
              /\ (\E i \in 1..Len(opening'.raw) :
                      ~ValidChannelName(opening'.raw[i])) =>
                     /\ pc' = "aborted"
                     /\ panic' = "Invalid channel name"
              /\ pc' = "open_log_files" => panic' = ""
              /\ pc' = "aborted" =>
                     /\ panic' \in ConfigErrors
                     /\ sent' = sent
                     /\ file_handles' = file_handles
                     /\ irc_channels' = irc_channels
                     /\ irc_config' = irc_config
                     /\ open_files' = open_files
                     /\ files' = files
       /\ pc # "aborted"
      ]_vars

\* C12 witness: a reload aborted on an invalid channel name while channels
\* were tracked and their Files open.
C12_Witness ==
    /\ pc = "aborted"
    /\ opening.ret = "sighup"
    /\ panic = "Invalid channel name"
    /\ irc_channels # <<>>
    /\ FilesOf(file_handles) # {}
    /\ sent = <<>>


\* C13: handling a CLEARMSG whose parameter count is not 2 aborts the
\* process and appends to no log file; with exactly 2 parameters the record
\* CLEARMSG(message:"<id>",tags:{...}) goes to the channel of the first
\* parameter: to its log file, or into the diagnostic when it has no File.
C13_ClearMsgNeedsTwoParams ==
    [][(/\ pc = "irc_event"
        /\ pc' # pc
        /\ message.variant = "Raw"
        /\ message.command = "CLEARMSG") =>
           LET n == Len(message.params)
               tags == RonMap(tags_to_map(message.tags))
           IN IF n # 2
              THEN /\ files' = files
                   /\ pc' = "aborted"
              ELSE LET c == message.params[1]
                       text == <<"CLEARMSG", "(message:\"">>
                                   \o message.params[2]
                                   \o <<"\",tags:">> \o tags \o <<")">>
                   IN IF c \in DOMAIN file_handles.map
                      THEN /\ OneAppended(files[LogPath(c)], files'[LogPath(c)])
                           /\ Last(files'[LogPath(c)]).text
                                  = text \o <<" // ", TS, "\n">>
                      ELSE /\ files' = files
                           /\ OneAppended(stderr, stderr')
      ]_vars


\* The lines of log file p written through a File of manager id.
LinesVia(p, id) == {i \in 1..Len(files[p]) : files[p][i].via.mgr = id}

\* C14: when open_log_files has opened everything for a load, no channel is
\* twice in the loaded list, one File of the manager being built is open on
\* each channel's log file, and one session marker was written to that file
\* for this manager.
C14_OneFileAndMarkerPerChannel ==
    (pc = "open_log_files" /\ AllOpened) =>
        /\ \A i, j \in 1..Len(opening.channels) :
               opening.channels[i] = opening.channels[j] => i = j
        /\ \A c \in ToSet(opening.channels) :
               /\ Cardinality({f \in open_files :
                                  f.mgr = n_managers /\ f.path = LogPath(c)}) = 1
               /\ Cardinality(LinesVia(LogPath(c), n_managers)) = 1


\* The keys of a tag list.
KeysOf(ts) == {ts[i].key : i \in 1..Len(ts)}

\* The keys of S in ascending order.
SortedKeys(S) ==
    CHOOSE q \in [1..Cardinality(S) -> S] :
        \A i, j \in 1..Cardinality(S) : i < j => StrLess(q[i], q[j])

\* The value of the last tag of ts with key k, the empty string if it has
\* none.
LastValue(ts, k) ==
    LET i == CHOOSE i \in 1..Len(ts) :
                 ts[i].key = k /\ \A j \in 1..Len(ts) : ts[j].key = k => j <= i
    IN IF ts[i].value.some THEN ts[i].value.val ELSE <<>>

\* The orderings of a tag list.
Reorderings(ts) ==
    {[i \in 1..Len(ts) |-> ts[f[i]]] : f \in Permutations(1..Len(ts))}

\* C15: the tag map of a message has each key of its tag list once, in
\* ascending key order, with the value of the key's (last) tag, the empty
\* string for a tag with no value; a message with no tag list has the empty
\* map; every reordering of a tag list with pairwise distinct keys gives the
\* same map and the same serialization; the record written for the event
\* carries that serialization.
C15_TagMapSortedUniqueOrderFree ==
    [][pc = "irc_event" =>
           LET ts == unwrap_or(message.tags, <<>>)
               m == tags_to_map(message.tags)
               keys == SortedKeys(KeysOf(ts))
               p == LogPath(ChanA)
           IN /\ m = [i \in 1..Len(keys) |-> <<keys[i], LastValue(ts, keys[i])>>]
              /\ \A i, j \in 1..Len(m) : m[i][1] = m[j][1] => i = j
              /\ ~message.tags.some => m = <<>>
              /\ Cardinality(KeysOf(ts)) = Len(ts) =>
                     /\ \A i \in 1..Len(ts) : \E j \in 1..Len(m) :
                            /\ m[j][1] = ts[i].key
                            /\ ~ts[i].value.some => m[j][2] = <<>>
                     /\ \A r \in Reorderings(ts) :
                            /\ tags_to_map(Some(r)) = m
                            /\ RonMap(tags_to_map(Some(r))) = RonMap(m)
              /\ OneAppended(files[p], files'[p])
              /\ Last(files'[p]).text
                     = <<"ROOMSTATE", "(tags:">> \o RonMap(m)
                           \o <<")", " // ", TS, "\n">>
      ]_vars

\* C15 witness: the record of an event with the tags a, b and c, the tag b
\* without a value, lists them in that order.
C15_Witness ==
    /\ pc = "select"
    /\ \E p \in DOMAIN files :
           /\ Len(files[p]) = 2
           /\ files[p][2].text
                  = <<"ROOMSTATE", "(tags:">>
                      \o RonMap(<< <<<<"a">>, <<"1">>>>, <<<<"b">>, <<>>>>,
                                   <<<<"c">>, <<"1">>>> >>)
                      \o <<")", " // ", TS, "\n">>


\* C16: the steps of one reload follow each other as load and opening of
\* the new Files, PART, replacement of the manager, JOIN, update of the
\* tracked channels.  A PART is sent only by the step after the load, with
\* the new manager fully opened and the old one still live; the manager is
\* replaced only by the next step; a JOIN is sent only by the step after
\* that, when every channel it names has its File in the live manager and
\* the tracked channels are still the old ones; the tracked channels change
\* only in the last step.
C16_ReloadStepOrder ==
    [][opening.ret # "main" =>
           /\ pc = "open_log_files" => pc' \in {"open_log_files", "reload_part"}
           /\ pc = "reload_part" => pc' \in {"reload_part", "reload_swap"}
           /\ pc = "reload_swap" => pc' \in {"reload_swap", "reload_join"}
           /\ pc = "reload_join" => pc' \in {"reload_join", "reload_commit"}
           /\ pc = "reload_commit" => pc' \in {"reload_commit", "select"}
           /\ (open_files' \ open_files # {}) => pc = "open_log_files"
           /\ sent' # sent =>
                  /\ OneAppended(sent, sent')
                  /\ \/ /\ Last(sent').command = "PART"
                        /\ pc = "reload_part"
                        /\ new_file_handles.id = n_managers
                        /\ DOMAIN new_file_handles.map = ToSet(new_irc_channels)
                        /\ FilesOf(new_file_handles) \subseteq open_files
                        /\ file_handles.id # n_managers
                        /\ file_handles' = file_handles
                     \/ /\ Last(sent').command = "JOIN"
                        /\ pc = "reload_join"
                        /\ file_handles.id = n_managers
                        /\ Split(Last(sent').arg, <<>>)
                               \subseteq DOMAIN file_handles.map
                        /\ \A c \in Split(Last(sent').arg, <<>>) :
                               file_handles.map[c] \in open_files
                        /\ Split(Last(sent').arg, <<>>)
                               \cap ToSet(irc_channels) = {}
           /\ file_handles' # file_handles =>
                  /\ pc = "reload_swap"
                  /\ file_handles' = new_file_handles
           /\ irc_channels' # irc_channels =>
                  /\ pc = "reload_commit"
                  /\ irc_channels' = new_irc_channels
                  /\ ToSet(irc_channels') = DOMAIN file_handles.map
      ]_vars

\* C16 witness: a reload that sent a PART and then a JOIN is about to update
\* the tracked channels; the manager is already the new one.
C16_Witness ==
    /\ pc = "reload_commit"
    /\ Len(sent) = 2
    /\ sent[1].command = "PART"
    /\ sent[2].command = "JOIN"
    /\ file_handles.id = n_managers
    /\ irc_channels # new_irc_channels


\* Line i of log file p is the session marker written through File f.
MarkerOf(p, i, f) == files[p][i].via = f /\ ~IsRecord(files[p][i])

C18_NoticeByParameterCount ==
    [][(/\ pc = "irc_event"
        /\ pc' # pc
        /\ message.variant = "Raw"
        /\ message.command \in {"ROOMSTATE", "USERNOTICE"}) =>
           IF Len(message.params) >= 1
           THEN LET c == message.params[1]
                    text == <<message.command, "(tags:">>
                                \o RonMap(tags_to_map(message.tags)) \o <<")">>
                IN /\ pc' = "select"
                   /\ IF c \in DOMAIN file_handles.map
                      THEN /\ OneAppended(files[LogPath(c)], files'[LogPath(c)])
                           /\ Last(files'[LogPath(c)]).text
                                  = text \o <<" // ", TS, "\n">>
                           /\ \A q \in DOMAIN files \ {LogPath(c)} :
                                  files'[q] = files[q]
                      ELSE /\ files' = files
                           /\ OneAppended(stderr, stderr')
           ELSE /\ files' = files
                /\ OneAppended(stdout, stdout')
                /\ pc' = "select"
                /\ panic' = ""
      ]_vars


\* The channels the transport has been told to be in: those of the client's
\* Config, then each directive in the order sent.
RECURSIVE ToldChannels(_, _)
ToldChannels(chans, directives) ==
    IF directives = <<>> THEN chans
    ELSE LET d == Head(directives)
             named == Split(d.arg, <<>>)
         IN ToldChannels(IF d.command = "JOIN" THEN chans \cup named
                         ELSE chans \ named,
                         Tail(directives))

\* C19: whenever main waits in the select loop, the tracked channels, the
\* channels that have a File in the live manager and the channels the
\* transport has been told to be in are the same set, and every one of those
\* Files is open.
C19_TrackedHandlesTransportAgree ==
    pc = "select" =>
        /\ ToSet(irc_channels) = DOMAIN file_handles.map
        /\ ToSet(irc_channels)
               = ToldChannels(ToSet(irc_config.channels), sent)
        /\ \A c \in ToSet(irc_channels) : file_handles.map[c] \in open_files

\* C19 witness: main waits in the select loop after two reloads that sent
\* directives and left channels tracked that the startup configuration did
\* not have.
C19_Witness ==
    /\ pc = "select"
    /\ n_managers = 3
    /\ Len(sent) >= 3
    /\ ToSet(irc_channels) \ ToSet(irc_config.channels) # {}


\* The reloads that have run to their end.
ReloadsCompleted ==
    Cardinality({i \in 1..Len(stdout) : stdout[i] = <<"Reloaded config.">>})

=============================================================================
